---------------------------- MODULE Spec2Model ----------------------------
(***************************************************************************)
(* Model of docker/eval-verismith/eval_performance.py: the trial harness   *)
(* that generates random designs, deduplicates them through a shared       *)
(* registry, filters them by cell count, synthesizes them, builds the      *)
(* top_equiv wrapper and times the equivalence check, run by a worker pool.*)
(*                                                                         *)
(* Texts are TLA+ strings handled character by character (Len, SubSeq and  *)
(* \o work on strings), so the text transformations are computed as the    *)
(* Python code computes them.                                              *)
(***************************************************************************)
EXTENDS Integers, Sequences, FiniteSets, TLC

(***************************************************************************)
(* Program constants and model bounds.                                     *)
(***************************************************************************)
MAX_NUM_CELLS == 10000

TIMEOUT_SECONDS == 5

\* sys.argv[1]: the number of trials (workload ids 0 .. num_workloads-1).
num_workloads == 3

\* sys.argv[2]: the number of pool worker processes.
num_processes == 2

\* The number of distinct texts the generator can print.
NumDesigns == 6

\* None, for num_cells and check_duration (both are >= 0 otherwise).
NoneVal == -1

(***************************************************************************)
(* Python str operations used by the script.                               *)
(***************************************************************************)
CharAt(s, i) == SubSeq(s, i, i)

\* s[i:] with a 1-based i.
From(s, i) == SubSeq(s, i, Len(s))

\* s.startswith(p)
StartsWith(s, p) == Len(s) >= Len(p) /\ SubSeq(s, 1, Len(p)) = p

\* s.endswith(p)
EndsWith(s, p) == Len(s) >= Len(p) /\ SubSeq(s, Len(s) - Len(p) + 1, Len(s)) = p

\* s[i:].startswith(p)
MatchAt(s, i, p) == i + Len(p) - 1 <= Len(s) /\ SubSeq(s, i, i + Len(p) - 1) = p

IsSpace(c) == c \in {" ", "\t", "\n", "\r", "\f"}

IsDigit(c) == c \in {"0", "1", "2", "3", "4", "5", "6", "7", "8", "9"}

\* The recursions below go from one occurrence to the next, not from one
\* character to the next: a text has few lines and few occurrences.

\* The least j >= i at which p occurs in s; Len(s) + 1 when there is none.
NextMatch(s, i, p) ==
    CHOOSE j \in i .. Len(s) + 1 :
        /\ j = Len(s) + 1 \/ MatchAt(s, j, p)
        /\ \A k \in i .. j - 1 : ~ MatchAt(s, k, p)

\* s.lstrip()
LStrip(s) ==
    LET i == CHOOSE j \in 1 .. Len(s) + 1 :
                 /\ j = Len(s) + 1 \/ ~ IsSpace(CharAt(s, j))
                 /\ \A k \in 1 .. j - 1 : IsSpace(CharAt(s, k))
    IN  From(s, i)

\* s.rstrip()
RStrip(s) ==
    LET i == CHOOSE j \in 0 .. Len(s) :
                 /\ j = 0 \/ ~ IsSpace(CharAt(s, j))
                 /\ \A k \in j + 1 .. Len(s) : IsSpace(CharAt(s, k))
    IN  SubSeq(s, 1, i)

\* s.strip()
Strip(s) == RStrip(LStrip(s))

\* s.split(c) for a one-character separator: the sequence of the pieces.
RECURSIVE SplitFrom(_, _, _)
SplitFrom(s, c, start) ==
    LET j == NextMatch(s, start, c)
    IN  IF j > Len(s) THEN << SubSeq(s, start, Len(s)) >>
        ELSE << SubSeq(s, start, j - 1) >> \o SplitFrom(s, c, j + 1)

Split(s, c) == SplitFrom(s, c, 1)

\* sep.join(parts)
RECURSIVE Join(_, _)
Join(parts, sep) ==
    IF parts = << >> THEN ""
    ELSE IF Len(parts) = 1 THEN parts[1]
         ELSE parts[1] \o sep \o Join(Tail(parts), sep)

\* s.replace(old, new): every non-overlapping occurrence, left to right.
RECURSIVE ReplaceFrom(_, _, _, _)
ReplaceFrom(s, i, old, new) ==
    LET j == NextMatch(s, i, old)
    IN  IF j > Len(s) THEN From(s, i)
        ELSE SubSeq(s, i, j - 1) \o new \o ReplaceFrom(s, j + Len(old), old, new)

Replace(s, old, new) == ReplaceFrom(s, 1, old, new)

\* The index after the run of digits that starts at i.
DigitsEnd(s, i) ==
    CHOOSE j \in i .. Len(s) + 1 :
        /\ j = Len(s) + 1 \/ ~ IsDigit(CharAt(s, j))
        /\ \A k \in i .. j - 1 : IsDigit(CharAt(s, k))

DigitVal(c) ==
    CASE c = "0" -> 0 [] c = "1" -> 1 [] c = "2" -> 2 [] c = "3" -> 3
      [] c = "4" -> 4 [] c = "5" -> 5 [] c = "6" -> 6 [] c = "7" -> 7
      [] c = "8" -> 8 [] c = "9" -> 9

\* int(s) of a string s of decimal digits, acc being the value so far.
RECURSIVE DigitsValue(_, _)
DigitsValue(s, acc) ==
    IF s = "" THEN acc
    ELSE DigitsValue(From(s, 2), 10 * acc + DigitVal(CharAt(s, 1)))

HexDigit(n) ==
    CASE n < 10 -> CharAt("0123456789", n + 1)
      [] OTHER  -> CharAt("abcdef", n - 9)

\* hex(n)[2:] for n >= 0
RECURSIVE Hex(_)
Hex(n) == IF n < 16 THEN HexDigit(n) ELSE Hex(n \div 16) \o HexDigit(n % 16)

\* f"{s:0>16}": s right-aligned in 16 columns, filled with "0".
RECURSIVE PadLeft16(_)
PadLeft16(s) == IF Len(s) >= 16 THEN s ELSE PadLeft16("0" \o s)

\* f"{n}" for n >= 0
RECURSIVE Dec(_)
Dec(n) == IF n < 10 THEN HexDigit(n) ELSE Dec(n \div 10) \o HexDigit(n % 10)

Abs(n) == IF n < 0 THEN -n ELSE n

(***************************************************************************)
(* The external tools, at their interface: what the generator prints, what *)
(* hash() returns for a text, what yosys reports and writes.               *)
(***************************************************************************)
Designs == 1 .. NumDesigns

\* An input port of a generated module: clk, wire0, wire1, ...
PortName(k) == IF k = 1 THEN "clk" ELSE "wire" \o Dec(k - 2)

PortDim(k) == IF k % 2 = 1 THEN "" ELSE "[(2'h3):(1'h0)] "

InputDecl(k) == "  input wire " \o PortDim(k) \o PortName(k) \o ";\n"

RECURSIVE InputDecls(_)
InputDecls(ports) ==
    IF ports = << >> THEN "" ELSE InputDecl(Head(ports)) \o InputDecls(Tail(ports))

PortNames(ports) == [i \in 1 .. Len(ports) |-> PortName(ports[i])]

\* One module as the generator prints it: header, output declaration, input
\* declarations in port order, body, endmodule.
ModuleText(name, outDecl, ports, body) ==
    "module " \o name \o "(y, " \o Join(PortNames(ports), ", ") \o ");\n"
    \o "  " \o outDecl \o "\n"
    \o InputDecls(ports)
    \o body
    \o "endmodule\n"

SubModule == ModuleText("module7", "output wire [(2'h2):(1'h0)] y;", << 1 >>, "  assign y = clk;\n")

\* A generated design: the top module alone, followed by a submodule, or
\* preceded by it.
DesignOf(ports, layout, outDecl) ==
    LET top == ModuleText("top", outDecl, ports,
                          IF layout = "alone" THEN "  assign y = clk;\n"
                          ELSE "  module7 modinst1 (.y(y), .clk(clk));\n")
    IN  CASE layout = "alone"     -> top
          [] layout = "top_first" -> top \o SubModule
          [] layout = "sub_first" -> SubModule \o top

\* The texts gen_design can return (line 42).  Design 2 is over the cell
\* bound; 4 is the empty capture of a failed generator; 5 declares its
\* output without "wire" and hashes to -h where 2 hashes to h; the others
\* are ordinary.
DesignText(d) ==
    CASE d = 1 -> DesignOf(<< 1, 2 >>, "top_first", "output wire y;")
      [] d = 2 -> DesignOf(<< 1, 2, 3 >>, "top_first", "output wire y;")
      [] d = 3 -> DesignOf(<< 2, 1 >>, "alone", "output wire [(2'h3):(1'h0)] y;")
      [] d = 4 -> ""
      [] d = 5 -> DesignOf(<< 1 >>, "alone", "output reg y;")
      [] OTHER -> DesignOf(<< 1, d >>, "alone", "output wire y;")

GeneratorOutputs == [d \in Designs |-> DesignText(d)]

IdOf(text) == CHOOSE d \in Designs : GeneratorOutputs[d] = text

\* hash(text) of the builtin str hash: one value per text within a run (the
\* workers are forked from one parent and share its hash seed); it may be
\* negative and two texts may collide.
HashTable(d) ==
    CASE d = 2 -> 26
      [] d = 5 -> -26
      [] d = 4 -> 0
      [] OTHER -> 4096 * d + 255

PyHash(text) == HashTable(IdOf(text))

\* The total yosys counts for a design.
CellsTable(d) ==
    CASE d = 1 -> 10000
      [] d = 2 -> 10001
      [] d = 3 -> 9999
      [] OTHER -> d

\* What `yosys -c stats.ys.tcl` prints for a design file (line 66).  A
\* hierarchical design gets one report per module and then the totals.
StatsStdout(text) ==
    IF text = "" THEN "ERROR: Module `top' not found!\n"
    ELSE "=== top ===\n\n   Number of wires:   4\n   Number of cells:   2\n"
         \o "\n=== design hierarchy ===\n\n   Number of cells:   "
         \o Dec(CellsTable(IdOf(text))) \o "\n\nEnd of script.\n"

\* What the synthesis run writes to VERILOG_OUTPUT (line 53): the design's
\* modules under the same names, after the tool's header.
SynthOutput(text, style) ==
    IF style = "same" THEN text
    ELSE "/* Generated by Yosys */\n\n" \o Replace(text, "module top", "(* top = 1 *)\nmodule top")

\* How long the equivalence checker runs if it is left alone.
CheckerRuntimes == {1, 10}

(***************************************************************************)
(* Pure functions of the script.                                           *)
(***************************************************************************)
\* A transformation that renames no module.
rename_nothing(verilog_str) == verilog_str

\* The least j >= i at which module\d+ matches; Len(s) + 1 when none does.
NextModuleNumber(s, i) ==
    CHOOSE j \in i .. Len(s) + 1 :
        /\ j = Len(s) + 1 \/ (MatchAt(s, j, "module") /\ DigitsEnd(s, j + 6) > j + 6)
        /\ \A k \in i .. j - 1 :
               ~ (MatchAt(s, k, "module") /\ DigitsEnd(s, k + 6) > k + 6)

RECURSIVE ReSubModule(_, _)
ReSubModule(s, i) ==
    LET j == NextModuleNumber(s, i)
        e == DigitsEnd(s, j + 6)
    IN  IF j > Len(s) THEN From(s, i)
        ELSE SubSeq(s, i, e - 1) \o "_replacedname" \o ReSubModule(s, e)

\* re.sub(r"(module\d+)", r"\1_replacedname", verilog_str)
rename_all_verismith_modules(verilog_str) == ReSubModule(verilog_str, 1)

\* list(map(lambda s: s.strip(), lines))
StripAll(lines) == [i \in 1 .. Len(lines) |-> Strip(lines[i])]

\* A search that stops at the first line with the label.
FirstCellsLine(stdout_lines, line_id) ==
    LET hits == {i \in 1 .. line_id : StartsWith(stdout_lines[i], "Number of cells:")}
    IN  IF hits = {} THEN 0 ELSE CHOOSE i \in hits : \A k \in hits : i <= k

\* The loop of lines 70-72, from line_id down to 1; 0 when no line matches.
RECURSIVE LastCellsLine(_, _)
LastCellsLine(stdout_lines, line_id) ==
    IF line_id = 0 THEN 0
    ELSE IF StartsWith(stdout_lines[line_id], "Number of cells:")
         THEN line_id
         ELSE LastCellsLine(stdout_lines, line_id - 1)

\* __get_num_cells on the tool's stdout: [raised, value].
get_num_cells(stdout) ==
    LET stdout_lines == StripAll(Split(stdout, "\n"))
        line_id == LastCellsLine(stdout_lines, Len(stdout_lines))
        field == Strip(Split(stdout_lines[line_id], ":")[2])
    IN  IF line_id = 0 \/ DigitsEnd(field, 1) # Len(field) + 1 \/ field = ""
        THEN [raised |-> TRUE, value |-> NoneVal]
        ELSE [raised |-> FALSE, value |-> DigitsValue(field, 0)]

\* f"{hex(abs(hash(design)))[2:]:0>16}" (line 182)
Fingerprint(text) == PadLeft16(Hex(Abs(PyHash(text))))

\* hex(abs(hash(first_verilog)))[2:] (line 83)
EquivHash(first_verilog) == Hex(Abs(PyHash(first_verilog)))

(***************************************************************************)
(* check_equiv, lines 83-148: the text of the three prepared files.        *)
(***************************************************************************)
\* line 85
first_file_transformed_content(first_verilog) ==
    Replace(first_verilog, "module top", "module top_first")

\* lines 91-93
second_file_transformed_content(second_verilog) ==
    Replace(rename_all_verismith_modules(second_verilog), "module top", "module top_second")

\* lines 100-104: the index of the first line whose strip() starts with
\* prefix, from i on; 0 for None.
RECURSIVE FirstLineWith(_, _, _)
FirstLineWith(lines, prefix, i) ==
    IF i > Len(lines) THEN 0
    ELSE IF StartsWith(Strip(lines[i]), prefix) THEN i
         ELSE FirstLineWith(lines, prefix, i + 1)

\* lines 106-112: the stripped "input" lines from line i up to the first
\* line that starts with endmodule.
RECURSIVE InputLinesFrom(_, _)
InputLinesFrom(lines, i) ==
    IF i > Len(lines) THEN << >>
    ELSE LET stripped_line == Strip(lines[i])
         IN  IF StartsWith(stripped_line, "endmodule") THEN << >>
             ELSE IF StartsWith(stripped_line, "input")
                  THEN << stripped_line >> \o InputLinesFrom(lines, i + 1)
                  ELSE InputLinesFrom(lines, i + 1)

\* lines 99-112.  first_file_lines[None:] is the whole list.
input_wire_lines(first_file_lines) ==
    LET top_first_line_id == FirstLineWith(first_file_lines, "module top_first", 1)
    IN  InputLinesFrom(first_file_lines,
                       IF top_first_line_id = 0 THEN 1 ELSE top_first_line_id)

\* A port name taken with the semicolon that ends its declaration.
wire_name_with_semicolon(input_line) ==
    LET splitted_line == Split(input_line, " ")
    IN  splitted_line[Len(splitted_line)]

\* lines 119-121: the last space-separated piece without its last character.
wire_name(input_line) ==
    LET splitted_line == Split(input_line, " ")
        last == splitted_line[Len(splitted_line)]
    IN  SubSeq(last, 1, Len(last) - 1)

\* lines 115-123
input_wire_names(lines) == [i \in 1 .. Len(lines) |-> wire_name(lines[i])]

\* lines 126-130: 0 for None.
output_wire_line_id(first_file_lines) == FirstLineWith(first_file_lines, "output wire", 1)

\* ', '.join(map(lambda s: '.'+s, input_wire_names))
DotJoin(names) == Join([i \in 1 .. Len(names) |-> "." \o names[i]], ", ")

\* lines 137-144
new_top_lines(output_wire_line, inputs, names) ==
    << "module top_equiv (y_a, y_b, " \o Join(names, ", ") \o ");",
       Replace(output_wire_line, "y;", "y_a;"),
       Replace(output_wire_line, "y;", "y_b;") >>
    \o inputs
    \o << "top_first top_first_inst (.y(y_a), " \o DotJoin(names) \o ");",
          "top_second top_second_inst (.y(y_b), " \o DotJoin(names) \o ");",
          "endmodule" >>

\* lines 85-148 as one function of the two texts read: the contents written
\* to the _0, _1 and _top files, and whether an assertion of line 131 or
\* 134 fails (then _top is not written).
BuildWrapper(first_verilog, second_verilog) ==
    LET first == first_file_transformed_content(first_verilog)
        second == second_file_transformed_content(second_verilog)
        first_file_lines == Split(first, "\n")
        inputs == input_wire_lines(first_file_lines)
        names == input_wire_names(inputs)
        out_id == output_wire_line_id(first_file_lines)
        output_wire_line == Strip(first_file_lines[out_id])
        raised == \/ out_id = 0
                  \/ ~ (StartsWith(output_wire_line, "output wire")
                        /\ EndsWith(output_wire_line, "y;"))
    IN  [first |-> first, second |-> second, raised |-> raised,
         inputs |-> inputs, names |-> names,
         top |-> IF raised THEN << >>
                 ELSE new_top_lines(output_wire_line, inputs, names)]


(***************************************************************************)
(* The run: the manager's lock and list, the pool, the trials, the parent. *)
(***************************************************************************)
VARIABLES
    set_of_design_hashes,  \* manager.list(): the registered fingerprints
    lock,                  \* manager.Lock(): the workload id holding it, or NoneVal
    pc,                    \* where each call test_new_design(.., workload_id) is
    design,                \* its local design
    design_hash,           \* its local design_hash
    num_cells,             \* its local num_cells
    path_to_design,        \* its local path_to_design
    check_duration,        \* its local check_duration
    runtime,               \* how long its checker ran, or would have run
    fs,                    \* the files on disk: path -> content
    wrote,                 \* history: <<path, workload id>> for every write
    tried,                 \* history: the fingerprints whose registration was decided
    finished,              \* history: the workload ids in the order their calls ended
    taskq,                 \* the pool's task queue
    mr_value,              \* MapResult._value
    mr_success,            \* MapResult._success
    number_left,           \* MapResult._number_left
    main,                  \* where the parent process is
    results,               \* what pool.starmap returned
    results_file,          \* performance_results.json: << >> or << content >>
    w_ports,               \* wrapper builder alone: the ports the top module declares
    w_first,               \* the text read from first_filepath
    w_second,              \* the text read from second_filepath
    w_stage,               \* how far check_equiv's text work has got
    w_out,                 \* what it has produced so far
    c_stdout,              \* cell counter alone: what yosys printed
    c_result               \* what __get_num_cells made of it: << >> before the call

runVars == << set_of_design_hashes, lock, pc, design, design_hash, num_cells,
              path_to_design, check_duration, runtime, fs, wrote, tried,
              finished, taskq, mr_value, mr_success, number_left, main, results, results_file >>

wrapVars == << w_ports, w_first, w_second, w_stage, w_out >>

cellVars == << c_stdout, c_result >>

Trials == 0 .. num_workloads - 1

Range(f) == {f[x] : x \in DOMAIN f}

\* os.path.join(TMP_DIR, ...), lines 84, 89, 146, 189, 195, 196
\* One file name for every candidate of every trial.
OneDesignPath(workload_id, hash) == "tmp/designs/design_.v"

DesignPath(workload_id, hash) ==
    "tmp/designs/design_" \o Dec(workload_id) \o "_" \o hash \o ".v"

SynthesizedPath(workload_id, hash) ==
    "tmp/designs/design_synthesized_" \o Dec(workload_id) \o "_" \o hash \o ".v"

LogPath(workload_id, hash) ==
    "tmp/logs/synth_" \o Dec(workload_id) \o "_" \o hash \o ".log"

EquivPath(hash, suffix) ==
    "tmp/prepared_for_equiv/equiv_" \o hash \o "_" \o suffix \o ".v"

\* open(path, "w").write(text): on Linux the text is stored as it is.
WriteFile(files, path, text) ==
    [q \in DOMAIN files \cup {path} |-> IF q = path THEN text ELSE files[q]]

\* open(path, "r").read() of a stored text: universal newlines turn "\r\n"
\* and "\r" into "\n".
ReadText(content) == Replace(Replace(content, "\r\n", "\n"), "\r", "\n")

\* The values below are computed once per text the generator can print;
\* the actions look them up by the text they hold or read.
DesignContents == Range(GeneratorOutputs)

\* line 182
FingerprintOf == [c \in DesignContents |-> Fingerprint(c)]

\* line 192: __get_num_cells(path), yosys reading the stored file
CellsOf == [c \in DesignContents |-> get_num_cells(StatsStdout(c))]

\* line 196: what yosys writes for the stored design file
SynthesizedOf == [c \in DesignContents |-> SynthOutput(c, "yosys")]

\* lines 79-148 for the contents of the two files check_equiv opens
PreparedOf ==
    [p \in {<< c, SynthesizedOf[c] >> : c \in DesignContents} |->
        LET first_verilog == ReadText(p[1])
            second_verilog == ReadText(p[2])
        IN  [hash |-> EquivHash(first_verilog),
             w |-> BuildWrapper(first_verilog, second_verilog)]]

\* A loop that stops at the first candidate it has a count for.
LoopUntilCounted(cells) == cells = NoneVal

\* line 180: the condition of the acquire loop
LoopCondition(cells) == cells = NoneVal \/ cells > MAX_NUM_CELLS

\* A membership test that never finds the fingerprint.
NeverInRegistry(hash) == FALSE

\* line 184
InRegistry(hash) == hash \in Range(set_of_design_hashes)

\* A lock that excludes nobody.
LockNeverHeld == TRUE

\* A continue that leaves the lock with its holder.
LockKept(holder) == holder

\* lines 183-186: continue leaves the with block, whose __exit__ releases
\* the lock.
LockAfterContinue(holder) == NoneVal

\* A lock that is never granted.
LockNeverGranted == FALSE

\* lock.acquire() goes through only when nobody holds the lock
LockFree == lock = NoneVal

\* A duration recorded as check_equiv returned it.
KeepDuration(duration) == duration

\* lines 204-205
SubstituteTimeout(duration) ==
    IF duration = NoneVal THEN TIMEOUT_SECONDS ELSE duration

\* lines 164-172: communicate(timeout=TIMEOUT_SECONDS) of a checker that
\* would run for r seconds: the elapsed time, or None after the kill.
EquivResult(r) == IF r > TIMEOUT_SECONDS THEN NoneVal ELSE r

\* The calls of test_new_design that a worker process is executing.
Active == {t \in Trials : pc[t] \notin {"queued", "done", "raised", "dead"}}

\* A pool with a worker for every task.
WorkerAlwaysFree == TRUE

\* mp.Pool(processes=num_processes): a worker process is free for a task.
WorkerFree == Cardinality(Active) < num_processes

\* A result list filled in the order the results arrive.
SetNextFree(value, i, result) ==
    LET k == CHOOSE n \in 1 .. Len(value) :
                 /\ value[n] = << >>
                 /\ \A m \in 1 .. n - 1 : value[m] # << >>
    IN  [value EXCEPT ![k] = result]

\* MapResult._set(i, result), with the chunksize of 1 that _map_async
\* computes whenever len(iterable) <= 4 * processes:
\* self._value[i*chunksize:(i+1)*chunksize] = result
SetValue(value, i, result) == [value EXCEPT ![i + 1] = result]

\* The end of a task: the worker sends its outcome to the parent's result
\* handler, which calls MapResult._set(i, (ok, val)).
Post(t, ok, val) ==
    /\ finished' = Append(finished, t)
    /\ number_left' = number_left - 1
    /\ IF ok /\ mr_success
       THEN /\ mr_value' = SetValue(mr_value, t, val)
            /\ UNCHANGED mr_success
       ELSE IF ~ ok /\ mr_success
            THEN /\ mr_success' = FALSE
                 /\ mr_value' = << >>
            ELSE UNCHANGED << mr_success, mr_value >>

RunInit ==
    /\ set_of_design_hashes = << >>
    /\ lock = NoneVal
    /\ pc = [t \in Trials |-> "queued"]
    /\ design = [t \in Trials |-> ""]
    /\ design_hash = [t \in Trials |-> ""]
    /\ num_cells = [t \in Trials |-> NoneVal]
    /\ path_to_design = [t \in Trials |-> ""]
    /\ check_duration = [t \in Trials |-> NoneVal]
    /\ runtime = [t \in Trials |-> NoneVal]
    /\ fs = << >>
    /\ wrote = {}
    /\ tried = {}
    /\ finished = << >>
    /\ taskq = [k \in 1 .. num_workloads |-> k - 1]
    /\ mr_value = [k \in 1 .. num_workloads |-> << >>]
    /\ mr_success = TRUE
    /\ number_left = num_workloads
    /\ main = "starmap"
    /\ results = << >>
    /\ results_file = << >>

\* A free worker takes the next task and calls test_new_design (line 179).
TakeTask ==
    /\ WorkerFree
    /\ taskq # << >>
    /\ taskq' = Tail(taskq)
    /\ pc' = [pc EXCEPT ![Head(taskq)] =
                 IF LoopCondition(num_cells[Head(taskq)]) THEN "gen" ELSE "synth"]
    /\ UNCHANGED << set_of_design_hashes, lock, design, design_hash, num_cells,
                    path_to_design, check_duration, runtime, fs, wrote,
                    mr_value, mr_success, number_left, main, results, results_file >>
    /\ UNCHANGED << tried, finished >>
    /\ UNCHANGED wrapVars
    /\ UNCHANGED cellVars

\* lines 181-182
GenDesign(t) ==
    /\ pc[t] = "gen"
    /\ \E d \in Designs :
          /\ design' = [design EXCEPT ![t] = GeneratorOutputs[d]]
          /\ design_hash' = [design_hash EXCEPT ![t] = FingerprintOf[GeneratorOutputs[d]]]
    /\ pc' = [pc EXCEPT ![t] = "acquire"]
    /\ UNCHANGED << set_of_design_hashes, lock, num_cells, path_to_design,
                    check_duration, runtime, fs, wrote, taskq,
                    mr_value, mr_success, number_left, main, results, results_file >>
    /\ UNCHANGED << tried, finished >>
    /\ UNCHANGED wrapVars
    /\ UNCHANGED cellVars

\* line 183: with lock
AcquireLock(t) ==
    /\ pc[t] = "acquire"
    /\ LockFree
    /\ lock' = t
    /\ pc' = [pc EXCEPT ![t] = "test"]
    /\ UNCHANGED << set_of_design_hashes, design, design_hash, num_cells,
                    path_to_design, check_duration, runtime, fs, wrote, taskq,
                    mr_value, mr_success, number_left, main, results, results_file >>
    /\ UNCHANGED << tried, finished >>
    /\ UNCHANGED wrapVars
    /\ UNCHANGED cellVars

\* line 184
TestMembership(t) ==
    /\ pc[t] = "test"
    /\ pc' = [pc EXCEPT ![t] = IF InRegistry(design_hash[t]) THEN "dup" ELSE "append"]
    /\ tried' = IF InRegistry(design_hash[t])
                THEN tried \cup {design_hash[t]} ELSE tried
    /\ UNCHANGED << set_of_design_hashes, lock, design, design_hash, num_cells,
                    path_to_design, check_duration, runtime, fs, wrote, taskq,
                    mr_value, mr_success, number_left, main, results, results_file >>
    /\ UNCHANGED << finished >>
    /\ UNCHANGED wrapVars
    /\ UNCHANGED cellVars

\* lines 185-186: continue leaves the with block, which releases the lock,
\* and goes to the loop condition of line 180.
SkipDuplicate(t) ==
    /\ pc[t] = "dup"
    /\ lock' = LockAfterContinue(lock)
    /\ pc' = [pc EXCEPT ![t] = IF LoopCondition(num_cells[t]) THEN "gen" ELSE "synth"]
    /\ UNCHANGED << set_of_design_hashes, design, design_hash, num_cells,
                    path_to_design, check_duration, runtime, fs, wrote, taskq,
                    mr_value, mr_success, number_left, main, results, results_file >>
    /\ UNCHANGED << tried, finished >>
    /\ UNCHANGED wrapVars
    /\ UNCHANGED cellVars

\* line 187
AppendHash(t) ==
    /\ pc[t] = "append"
    /\ set_of_design_hashes' = Append(set_of_design_hashes, design_hash[t])
    /\ tried' = tried \cup {design_hash[t]}
    /\ pc' = [pc EXCEPT ![t] = "release"]
    /\ UNCHANGED << lock, design, design_hash, num_cells, path_to_design,
                    check_duration, runtime, fs, wrote, taskq,
                    mr_value, mr_success, number_left, main, results, results_file >>
    /\ UNCHANGED << finished >>
    /\ UNCHANGED wrapVars
    /\ UNCHANGED cellVars

\* the end of the with block of line 183
ReleaseLock(t) ==
    /\ pc[t] = "release"
    /\ lock' = NoneVal
    /\ pc' = [pc EXCEPT ![t] = "write"]
    /\ UNCHANGED << set_of_design_hashes, design, design_hash, num_cells,
                    path_to_design, check_duration, runtime, fs, wrote, taskq,
                    mr_value, mr_success, number_left, main, results, results_file >>
    /\ UNCHANGED << tried, finished >>
    /\ UNCHANGED wrapVars
    /\ UNCHANGED cellVars

\* lines 189-191
WriteDesign(t) ==
    LET path == DesignPath(t, design_hash[t])
    IN  /\ pc[t] = "write"
        /\ path_to_design' = [path_to_design EXCEPT ![t] = path]
        /\ fs' = WriteFile(fs, path, design[t])
        /\ wrote' = wrote \cup {<< path, t >>}
        /\ pc' = [pc EXCEPT ![t] = "cells"]
        /\ UNCHANGED << set_of_design_hashes, lock, design, design_hash, num_cells,
                        check_duration, runtime, taskq, mr_value,
                        mr_success, number_left, main, results, results_file >>
        /\ UNCHANGED << tried, finished >>
        /\ UNCHANGED wrapVars
        /\ UNCHANGED cellVars

\* line 192 and the loop condition of line 180.  The exception of line 74
\* ends the call: the worker reports the failure.
CountCells(t) ==
    /\ pc[t] = "cells"
    /\ LET r == CellsOf[fs[path_to_design[t]]]
       IN  IF r.raised
           THEN /\ pc' = [pc EXCEPT ![t] = "raised"]
                /\ Post(t, FALSE, << >>)
                /\ UNCHANGED num_cells
           ELSE /\ num_cells' = [num_cells EXCEPT ![t] = r.value]
                /\ pc' = [pc EXCEPT ![t] =
                             IF LoopCondition(r.value) THEN "gen" ELSE "synth"]
                /\ UNCHANGED << mr_value, mr_success, number_left, finished >>
    /\ UNCHANGED << set_of_design_hashes, lock, design, design_hash,
                    path_to_design, check_duration, runtime, fs, wrote, taskq,
                    main, results, results_file >>
    /\ UNCHANGED << tried >>
    /\ UNCHANGED wrapVars
    /\ UNCHANGED cellVars

\* lines 195-196: yosys writes the synthesized design and its log.
Synthesize(t) ==
    LET out == SynthesizedPath(t, design_hash[t])
        log == LogPath(t, design_hash[t])
    IN  /\ pc[t] = "synth"
        /\ fs' = WriteFile(WriteFile(fs, out, SynthesizedOf[fs[path_to_design[t]]]),
                           log, "yosys log")
        /\ wrote' = wrote \cup {<< out, t >>, << log, t >>}
        /\ pc' = [pc EXCEPT ![t] = "wrap"]
        /\ UNCHANGED << set_of_design_hashes, lock, design, design_hash, num_cells,
                        path_to_design, check_duration, runtime, taskq,
                        mr_value, mr_success, number_left, main, results,
                        results_file >>
        /\ UNCHANGED << tried, finished >>
        /\ UNCHANGED wrapVars
        /\ UNCHANGED cellVars

\* check_equiv(path_to_design, path_to_design_synthesized), lines 79-148:
\* the _0 and _1 files are written, then the assertions of lines 131 and
\* 134 are checked, then _top is written.
PrepareEquiv(t) ==
    /\ pc[t] = "wrap"
    /\ LET p == PreparedOf[<< fs[path_to_design[t]],
                              fs[SynthesizedPath(t, design_hash[t])] >>]
           two == WriteFile(WriteFile(fs, EquivPath(p.hash, "0"), p.w.first),
                            EquivPath(p.hash, "1"), p.w.second)
       IN  IF p.w.raised
           THEN /\ fs' = two
                /\ wrote' = wrote \cup {<< EquivPath(p.hash, "0"), t >>,
                                        << EquivPath(p.hash, "1"), t >>}
                /\ pc' = [pc EXCEPT ![t] = "raised"]
                /\ Post(t, FALSE, << >>)
           ELSE /\ fs' = WriteFile(two, EquivPath(p.hash, "top"), Join(p.w.top, "\n"))
                /\ wrote' = wrote \cup {<< EquivPath(p.hash, "0"), t >>,
                                        << EquivPath(p.hash, "1"), t >>,
                                        << EquivPath(p.hash, "top"), t >>}
                /\ pc' = [pc EXCEPT ![t] = "check"]
                /\ UNCHANGED << mr_value, mr_success, number_left, finished >>
    /\ UNCHANGED << set_of_design_hashes, lock, design, design_hash, num_cells,
                    path_to_design, check_duration, runtime, taskq, main, results,
                    results_file >>
    /\ UNCHANGED << tried >>
    /\ UNCHANGED wrapVars
    /\ UNCHANGED cellVars

\* check_equiv, lines 159-172, and lines 198-206: the checker runs to its
\* end or to the timeout, and the call returns (num_cells, check_duration).
RunEquiv(t) ==
    /\ pc[t] = "check"
    /\ \E r \in CheckerRuntimes :
          LET duration == SubstituteTimeout(EquivResult(r))
          IN  /\ runtime' = [runtime EXCEPT ![t] = r]
              /\ check_duration' = [check_duration EXCEPT ![t] = duration]
              /\ Post(t, TRUE, << num_cells[t], duration >>)
    /\ pc' = [pc EXCEPT ![t] = "done"]
    /\ UNCHANGED << set_of_design_hashes, lock, design, design_hash, num_cells,
                    path_to_design, fs, wrote, taskq, main, results, results_file >>
    /\ UNCHANGED << tried >>
    /\ UNCHANGED wrapVars
    /\ UNCHANGED cellVars

\* A pool that puts the task of a dead worker back into the queue.
TasksRequeued(q, t) == Append(q, t)

\* The pool's task queue after the worker running task t died: the task was
\* taken from the queue when the worker started it and nothing puts it back.
TasksAfterDeath(q, t) == q

\* The worker processes that may die in a run.
MaxDeaths == 1

\* The worker process executing test_new_design(.., t) dies (it is killed,
\* or the interpreter crashes).  The pool starts a new worker in its place,
\* the dead worker's task posts no outcome, and a manager lock it held
\* stays held.
WorkerDies(t) ==
    /\ t \in Active
    /\ Cardinality({u \in Trials : pc[u] = "dead"}) < MaxDeaths
    /\ pc' = [pc EXCEPT ![t] = "dead"]
    /\ taskq' = TasksAfterDeath(taskq, t)
    /\ UNCHANGED << set_of_design_hashes, lock, design, design_hash, num_cells,
                    path_to_design, check_duration, runtime, fs, wrote,
                    mr_value, mr_success, number_left, main, results, results_file >>
    /\ UNCHANGED << tried, finished >>
    /\ UNCHANGED wrapVars
    /\ UNCHANGED cellVars

(***************************************************************************)
(* The parent, lines 208-215.                                              *)
(***************************************************************************)
\* A result that counts as ready once no task is waiting in the queue.
ReadyWhenDispatched == taskq = << >>

\* A get() that returns the list whatever the trials did.
GetAlwaysReturns == TRUE

\* MapResult's event is set: "only consider the result ready once all jobs
\* are done".
ResultReady == number_left = 0

\* What get() does with a ready result: return the list, or raise.
GetReturns == mr_success

\* line 209 returns the list; leaving the with block terminates the pool.
StarmapReturn ==
    /\ main = "starmap"
    /\ ResultReady /\ GetReturns
    /\ results' = mr_value
    /\ main' = "rm"
    /\ UNCHANGED << set_of_design_hashes, lock, pc, design, design_hash, num_cells,
                    path_to_design, check_duration, runtime, fs, wrote, taskq,
                    mr_value, mr_success, number_left, results_file >>
    /\ UNCHANGED << tried, finished >>
    /\ UNCHANGED wrapVars
    /\ UNCHANGED cellVars

\* line 209 re-raises a trial's exception in the parent: the script ends
\* there with a traceback, and lines 212-215 never run.
StarmapRaise ==
    /\ main = "starmap"
    /\ ResultReady /\ ~ GetReturns
    /\ main' = "raised"
    /\ UNCHANGED << set_of_design_hashes, lock, pc, design, design_hash, num_cells,
                    path_to_design, check_duration, runtime, fs, wrote, taskq,
                    mr_value, mr_success, number_left, results, results_file >>
    /\ UNCHANGED << tried, finished >>
    /\ UNCHANGED wrapVars
    /\ UNCHANGED cellVars

\* line 212: rm -rf tmp
RemoveTmp ==
    /\ main = "rm"
    /\ fs' = [q \in {x \in DOMAIN fs : ~ StartsWith(x, "tmp/")} |-> fs[q]]
    /\ main' = "dump"
    /\ UNCHANGED << set_of_design_hashes, lock, pc, design, design_hash, num_cells,
                    path_to_design, check_duration, runtime, wrote, taskq,
                    mr_value, mr_success, number_left, results, results_file >>
    /\ UNCHANGED << tried, finished >>
    /\ UNCHANGED wrapVars
    /\ UNCHANGED cellVars

\* lines 214-215
DumpResults ==
    /\ main = "dump"
    /\ results_file' = << results >>
    /\ main' = "exit"
    /\ UNCHANGED << set_of_design_hashes, lock, pc, design, design_hash, num_cells,
                    path_to_design, check_duration, runtime, fs, wrote, taskq,
                    mr_value, mr_success, number_left, results >>
    /\ UNCHANGED << tried, finished >>
    /\ UNCHANGED wrapVars
    /\ UNCHANGED cellVars

RunNext ==
    \/ TakeTask
    \/ \E t \in Trials : GenDesign(t)
    \/ \E t \in Trials : AcquireLock(t)
    \/ \E t \in Trials : TestMembership(t)
    \/ \E t \in Trials : SkipDuplicate(t)
    \/ \E t \in Trials : AppendHash(t)
    \/ \E t \in Trials : ReleaseLock(t)
    \/ \E t \in Trials : WriteDesign(t)
    \/ \E t \in Trials : CountCells(t)
    \/ \E t \in Trials : Synthesize(t)
    \/ \E t \in Trials : PrepareEquiv(t)
    \/ \E t \in Trials : RunEquiv(t)
    \/ StarmapReturn
    \/ StarmapRaise
    \/ RemoveTmp
    \/ DumpResults

(***************************************************************************)
(* The wrapper builder on its own: check_equiv's text work (lines 79-148)  *)
(* applied to every pair of a generated design and its synthesized form.   *)
(***************************************************************************)
\* The most input ports a top module declares.
MaxPorts == 3

\* The port orders: the sequences without repetition of 1 to MaxPorts of
\* the ports 1 .. MaxPorts.
PortOrders ==
    {q \in UNION {[1 .. n -> 1 .. MaxPorts] : n \in 1 .. MaxPorts} :
        \A i, j \in DOMAIN q : i # j => q[i] # q[j]}

Layouts == {"alone", "top_first", "sub_first"}

OutputDecls == {"output wire y;", "output wire [(2'h3):(1'h0)] y;", "output reg y;"}

SynthStyles == {"same", "yosys"}

WrapIdle ==
    /\ w_ports = << >>
    /\ w_first = ""
    /\ w_second = ""
    /\ w_stage = "off"
    /\ w_out = << >>

\* The pairs of texts check_equiv can read: a generated design and what
\* the synthesis made of it, with the ports the top module declares.
WrapInputs ==
    UNION {{[ports |-> q,
             first |-> ReadText(text),
             second |-> ReadText(SynthOutput(text, style))] :
               text \in {DesignOf(q, layout, decl) :
                             layout \in Layouts, decl \in OutputDecls},
               style \in SynthStyles} :
           q \in PortOrders}

WrapInit ==
    /\ w_stage = "read"
    /\ \E in \in WrapInputs :
          /\ w_ports = in.ports
          /\ w_first = in.first
          /\ w_second = in.second
    /\ w_out = << >>

\* lines 85-95: the two transformed texts
TransformTexts ==
    /\ w_stage = "read"
    /\ w_out' = [first |-> first_file_transformed_content(w_first),
                 second |-> second_file_transformed_content(w_second)]
    /\ w_stage' = "prepared"
    /\ UNCHANGED << w_ports, w_first, w_second >>
    /\ UNCHANGED runVars
    /\ UNCHANGED cellVars

\* lines 97-148: the ports, the output declaration, the new top module;
\* an assertion of line 131 or 134 may fail instead.
AssembleTop ==
    /\ w_stage = "prepared"
    /\ w_out' = BuildWrapper(w_first, w_second)
    /\ w_stage' = IF w_out'.raised THEN "raised" ELSE "built"
    /\ UNCHANGED << w_ports, w_first, w_second >>
    /\ UNCHANGED runVars
    /\ UNCHANGED cellVars

WrapNext ==
    \/ TransformTexts
    \/ AssembleTop

(***************************************************************************)
(* The cell counter on its own: lines 68-74 applied to what yosys may      *)
(* print.                                                                  *)
(***************************************************************************)
\* The most lines of a yosys report.
MaxLines == 3

\* The lines yosys may print: counts with the label at the start of the
\* line or after blanks, the label inside a line, and other lines.
StdoutLines ==
    {"   Number of cells:   2", "Number of cells: 10001", "\tNumber of cells:7\r",
     "Total Number of cells: 9", "   Number of wires:   4", ""}

\* What yosys may print: up to MaxLines lines, each ended by a newline.
Stdouts ==
    {Join(q, "\n") \o "\n" :
        q \in UNION {[1 .. n -> StdoutLines] : n \in 0 .. MaxLines}}

CellsIdle ==
    /\ c_stdout = ""
    /\ c_result = << >>

CellsInit ==
    /\ c_stdout \in Stdouts
    /\ c_result = << >>

\* lines 68-74 on the captured stdout
CountFromStdout ==
    /\ c_result = << >>
    /\ c_result' = get_num_cells(c_stdout)
    /\ UNCHANGED c_stdout
    /\ UNCHANGED runVars
    /\ UNCHANGED wrapVars

CellsNext == CountFromStdout

vars == << runVars, wrapVars, cellVars >>

Init == RunInit /\ WrapIdle /\ CellsIdle

InitWrap == RunInit /\ WrapInit /\ CellsIdle

InitCells == RunInit /\ WrapIdle /\ CellsInit

Next == RunNext

\* The run of the script.
Spec == Init /\ [][Next]_vars

\* __get_num_cells on every report.
SpecCells == InitCells /\ [][CellsNext]_vars

\* gen_design returns a text that is not registered, that yosys can count
\* and that is within the cell bound.
GenAcceptable(t) ==
    /\ GenDesign(t)
    /\ design_hash'[t] \notin Range(set_of_design_hashes)
    /\ ~ CellsOf[design'[t]].raised
    /\ CellsOf[design'[t]].value <= MAX_NUM_CELLS

\* Some trial is handed an acceptable text by the generator.
SomeGenAcceptable == \E t \in Trials : GenAcceptable(t)

\* The processes keep running (the operating system schedules the workers
\* and the parent, and the external tools end), and the generator does not
\* repeat itself or overshoot the bound for ever.
Fairness ==
    /\ WF_vars(Next)
    /\ SF_vars(SomeGenAcceptable)

\* The run of the script under fair scheduling.
SpecFair == Init /\ [][Next]_vars /\ Fairness

NextCrash ==
    \/ Next
    \/ \E t \in Trials : WorkerDies(t)

\* The run of the script when worker processes may die.
SpecCrash == Init /\ [][NextCrash]_vars

\* The wrapper builder applied to the designs of PortOrders, Layouts,
\* OutputDecls and SynthStyles.
SpecWrap == InitWrap /\ [][WrapNext]_vars

(***************************************************************************)
(* Properties of the run.                                                  *)
(***************************************************************************)
\* How often a fingerprint is in the registry.
TimesRegistered(hash) ==
    Cardinality({i \in DOMAIN set_of_design_hashes : set_of_design_hashes[i] = hash})

\* The prepared files, which carry no workload id in their names.
IsPreparedPath(path) == StartsWith(path, "tmp/prepared_for_equiv/")

\* The trials still inside the acquire loop of lines 180-192.
InLoop(t) ==
    pc[t] \in {"gen", "acquire", "test", "dup", "append", "release", "write", "cells"}

\* The synthesized designs, and the candidates written for counting.
IsSynthesizedPath(path) == StartsWith(path, "tmp/designs/design_synthesized_")

IsCandidatePath(path) ==
    StartsWith(path, "tmp/designs/design_") /\ ~ IsSynthesizedPath(path)

\* The path names the design that trial t holds.
OfHeldDesign(path, t) == EndsWith(path, "_" \o design_hash[t] \o ".v")

\* The files written so far that are no longer on disk.
Deleted == {w \in wrote : w[1] \notin DOMAIN fs}

\* C1: whatever the interleaving of the workers, every fingerprint whose
\* registration has been decided is in set_of_design_hashes exactly once,
\* so the number of accepted registrations is the number of distinct
\* fingerprints attempted.
C1_RegisteredExactlyOnce ==
    /\ \A hash \in tried : TimesRegistered(hash) = 1
    /\ Len(set_of_design_hashes) = Cardinality(tried)

\* Two trials drew the same fingerprint: one registered it and went on, the
\* other found it registered.
C1_Witness ==
    \E t1, t2 \in Trials :
        /\ t1 # t2
        /\ design_hash[t1] = design_hash[t2]
        /\ pc[t1] = "write"
        /\ pc[t2] = "dup"
        /\ TimesRegistered(design_hash[t1]) = 1

\* C2: once pool.starmap has returned, the results list has num_workloads
\* entries and entry i is the (num_cells, check_duration) pair of workload
\* id i, whatever the order in which the trials finished; the file written
\* holds that list.
C2_ResultsInIdOrder ==
    /\ main \in {"rm", "dump", "exit"} =>
          /\ Len(results) = num_workloads
          /\ \A i \in Trials : results[i + 1] = << num_cells[i], check_duration[i] >>
    /\ results_file # << >> =>
          /\ Len(results_file[1]) = num_workloads
          /\ \A i \in Trials :
                results_file[1][i + 1] = << num_cells[i], check_duration[i] >>

\* The list was written after workload 1 finished before workload 0, with
\* different results.
C2_Witness ==
    /\ main = "exit"
    /\ Len(finished) = num_workloads
    /\ finished[1] = 1
    /\ results_file # << >>
    /\ results_file[1][1] # results_file[1][2]

\* C3: a trial whose equivalence check timed out has a recorded duration of
\* exactly TIMEOUT_SECONDS, and every recorded duration is a number, in the
\* trial, in the results returned and in the file written.
C3_TimeoutDuration ==
    /\ \A t \in Trials :
          pc[t] = "done" =>
             /\ check_duration[t] # NoneVal
             /\ runtime[t] > TIMEOUT_SECONDS => check_duration[t] = TIMEOUT_SECONDS
    /\ \A k \in DOMAIN mr_value :
          mr_value[k] # << >> =>
             /\ mr_value[k][2] # NoneVal
             /\ runtime[k - 1] > TIMEOUT_SECONDS => mr_value[k][2] = TIMEOUT_SECONDS
    /\ results_file # << >> =>
          \A k \in DOMAIN results_file[1] :
             /\ results_file[1][k][2] # NoneVal
             /\ runtime[k - 1] > TIMEOUT_SECONDS =>
                   results_file[1][k][2] = TIMEOUT_SECONDS

\* The file was written with the result of a trial whose check timed out.
C3_Witness ==
    /\ main = "exit"
    /\ results_file # << >>
    /\ \E i \in Trials :
          /\ runtime[i] > TIMEOUT_SECONDS
          /\ results_file[1][i + 1][2] = TIMEOUT_SECONDS

\* C4: a design is synthesized and equivalence checked only when its cell
\* count is at most MAX_NUM_CELLS, so every recorded count is at most
\* MAX_NUM_CELLS; a trial goes round the loop with a count only when that
\* count is over the bound, so a count of exactly MAX_NUM_CELLS is accepted.
C4_CellBound ==
    /\ \A w \in wrote :
          IsSynthesizedPath(w[1]) =>
             /\ OfHeldDesign(w[1], w[2])
             /\ ~ CellsOf[design[w[2]]].raised
             /\ CellsOf[design[w[2]]].value = num_cells[w[2]]
             /\ num_cells[w[2]] \in 0 .. MAX_NUM_CELLS
    /\ \A t \in Trials :
          pc[t] \in {"synth", "wrap", "check", "done"} =>
             num_cells[t] \in 0 .. MAX_NUM_CELLS
    /\ \A t \in Trials :
          (InLoop(t) /\ num_cells[t] # NoneVal) => num_cells[t] > MAX_NUM_CELLS
    /\ \A k \in DOMAIN mr_value :
          mr_value[k] # << >> => mr_value[k][1] \in 0 .. MAX_NUM_CELLS
    /\ results_file # << >> =>
          \A k \in DOMAIN results_file[1] :
             results_file[1][k][1] \in 0 .. MAX_NUM_CELLS

\* The file was written; one trial had written a candidate that it then
\* discarded, and a design of exactly MAX_NUM_CELLS cells is in the results.
C4_Witness ==
    /\ main = "exit"
    /\ results_file # << >>
    /\ \E w \in wrote : IsCandidatePath(w[1]) /\ ~ OfHeldDesign(w[1], w[2])
    /\ \E k \in DOMAIN results_file[1] : results_file[1][k][1] = MAX_NUM_CELLS

\* C5: at no time are more than num_processes trials being executed.
C5_AtMostNumProcesses == Cardinality(Active) <= num_processes

\* num_processes trials are being executed and another waits in the queue.
C5_Witness ==
    /\ Cardinality(Active) = num_processes
    /\ taskq # << >>

\* C6: once a trial has ended with an exception, the results file is never
\* written: the parent is still in pool.starmap or has ended with the
\* exception, and lines 212-215 have not run.
C6_FatalErrorNoResults ==
    (\E t \in Trials : pc[t] = "raised") =>
        /\ main \in {"starmap", "raised"}
        /\ results = << >>
        /\ results_file = << >>
        /\ Deleted = {}

\* The parent ended with the exception of one trial after another trial
\* had returned its result.
C6_Witness ==
    /\ main = "raised"
    /\ \E t1, t2 \in Trials : pc[t1] = "raised" /\ pc[t2] = "done"
    /\ results_file = << >>

\* C7: pool.starmap returns only when every trial has finished; the scratch
\* directory is removed after that and before the results file is written:
\* no file is deleted while a trial is unfinished, and when the results file
\* exists no scratch file does.
C7_EndOfBatchOrder ==
    /\ main \in {"rm", "dump", "exit"} => \A t \in Trials : pc[t] = "done"
    /\ Deleted # {} =>
          /\ main \in {"dump", "exit"}
          /\ \A t \in Trials : pc[t] = "done"
    /\ main = "rm" => results_file = << >>
    /\ results_file # << >> =>
          /\ main = "exit"
          /\ \A path \in DOMAIN fs : ~ StartsWith(path, "tmp/")

\* The results file was written after the scratch files of the trials were
\* removed.
C7_Witness ==
    /\ main = "exit"
    /\ results_file # << >>
    /\ wrote # {}
    /\ Deleted = wrote

\* C8: no two trials of a batch ever write the same scratch path, the
\* prepared files named by the design's hash alone included.
C8_NoSharedScratchPath ==
    \A a, b \in wrote : a[1] = b[1] => a[2] = b[2]

\* Two trials have each written their prepared files.
C8_Witness ==
    \E a, b \in wrote :
        /\ a[2] # b[2]
        /\ IsPreparedPath(a[1])
        /\ IsPreparedPath(b[1])

(***************************************************************************)
(* Properties of the wrapper builder.                                      *)
(***************************************************************************)
\* The port bindings of an instantiation line: the pieces between the
\* prefix and the closing ");".
Bindings(line, prefix) ==
    IF StartsWith(line, prefix) /\ EndsWith(line, ");")
    THEN LET parts == Split(SubSeq(line, Len(prefix) + 1, Len(line) - 2), ",")
         IN  [i \in 1 .. Len(parts) |-> LStrip(parts[i])]
    ELSE << >>

\* The bindings of the declared input ports, in declaration order.
DeclaredBindings == [i \in 1 .. Len(w_ports) |-> "." \o PortName(w_ports[i])]

\* The names of the modules a text declares.
ModuleNames(text) ==
    LET lines == Split(text, "\n")
    IN  {Strip(Split(From(Strip(lines[i]), 8), "(")[1]) :
            i \in {k \in DOMAIN lines : StartsWith(Strip(lines[k]), "module ")}}

\* Every module<number> in the text is followed by _replacedname.
AllRenamed(text) ==
    \A j \in 1 .. Len(text) :
        (MatchAt(text, j, "module") /\ IsDigit(CharAt(text, j + 6))) =>
            MatchAt(text, DigitsEnd(text, j + 6), "_replacedname")

\* C9: the generated top module binds, after the output, exactly the input
\* ports the first design's top module declares, in declaration order, and
\* with the same list in the instance of top_first and of top_second.
C9_WrapperBindsDeclaredInputs ==
    w_stage = "built" =>
        LET n == Len(w_out.top)
            a == Bindings(w_out.top[n - 2], "top_first top_first_inst (.y(y_a), ")
            b == Bindings(w_out.top[n - 1], "top_second top_second_inst (.y(y_b), ")
        IN  /\ a = DeclaredBindings
            /\ b = DeclaredBindings

\* A wrapper was built for a top module of MaxPorts ports declared in
\* another order than that of their names, after a submodule with a port
\* of its own.
C9_Witness ==
    /\ w_stage = "built"
    /\ Len(w_ports) = MaxPorts
    /\ w_ports[1] > w_ports[2]
    /\ "module7" \in ModuleNames(w_first)
    /\ ~ StartsWith(w_first, "module top")

\* C10: the module<number> names are renamed in the second design only:
\* the first prepared text keeps them, every one in the second carries
\* _replacedname, and the two prepared texts declare no module of the same
\* name.
C10_RenamedInSecondOnly ==
    w_stage \in {"prepared", "built", "raised"} =>
        /\ ModuleNames(w_out.first) =
              {IF m = "top" THEN "top_first" ELSE m : m \in ModuleNames(w_first)}
        /\ ModuleNames(w_out.second) =
              {IF m = "top" THEN "top_second" ELSE m \o "_replacedname" :
                  m \in ModuleNames(w_second)}
        /\ NextMatch(w_out.first, 1, "_replacedname") > Len(w_out.first)
        /\ AllRenamed(w_out.second)
        /\ ModuleNames(w_out.first) \cap ModuleNames(w_out.second) = {}

\* Both designs declare module7 and the two texts have been prepared.
C10_Witness ==
    /\ w_stage = "prepared"
    /\ "module7" \in ModuleNames(w_first)
    /\ "module7" \in ModuleNames(w_second)
    /\ "module7" \in ModuleNames(w_out.first)
    /\ "module7_replacedname" \in ModuleNames(w_out.second)

(***************************************************************************)
(* Properties of the run under fair scheduling.                            *)
(***************************************************************************)
\* Every trial has returned and the parent has the list of all outcomes.
AllReturned ==
    /\ \A t \in Trials : pc[t] = "done"
    /\ main \in {"rm", "dump", "exit"}
    /\ Len(results) = num_workloads

BatchEnded ==
    /\ \A t \in Trials : pc[t] \in {"done", "raised"}
    /\ AllReturned \/ main = "raised"

C12_LostTrialNotRetried ==
    /\ [](\A t \in Trials :
             pc[t] = "dead" =>
                 /\ t \notin Range(taskq)
                 /\ t \notin Range(finished)
                 /\ mr_value = << >> \/ mr_value[t + 1] = << >>
                 /\ results = << >>
                 /\ results_file = << >>)
    /\ [][\A t \in Trials : pc[t] = "dead" => pc'[t] = "dead"]_vars

\* A worker died in the middle of its trial while another trial went on to
\* its end.
C12_Witness ==
    \E t, u \in Trials :
        /\ pc[t] = "dead"
        /\ design[t] # ""
        /\ pc[u] = "done"
        /\ u \in Range(finished)

(***************************************************************************)
(* Properties of the lock and of what a trial keeps.                       *)
(***************************************************************************)
\* The steps of the with block of lines 183-187.
InWithBlock(t) == pc[t] \in {"test", "dup", "append", "release"}

\* C13: every membership test on the shared registry and every append to it
\* is made by the trial that holds the lock, and a trial's test and its
\* append are one holding: from the test to the append the lock stays with
\* the trial, nobody else changes the registry, and the fingerprint it found
\* absent is still absent when it appends.
C13_TestAndAppendUnderLock ==
    /\ [](\A t \in Trials :
             /\ InWithBlock(t) => lock = t
             /\ pc[t] = "append" => ~ InRegistry(design_hash[t]))
    /\ [][\A t \in Trials :
             /\ pc[t] \in {"test", "append"} /\ pc'[t] = pc[t] =>
                    /\ lock' = lock
                    /\ set_of_design_hashes' = set_of_design_hashes
             /\ pc[t] = "test" /\ pc'[t] # pc[t] => lock' = t
             /\ set_of_design_hashes' # set_of_design_hashes =>
                    \E u \in Trials : lock = u /\ pc[u] = "append" /\ pc'[u] = "release"]_vars

\* A trial is about to append under the lock while another trial waits for
\* the lock with the same fingerprint.
C13_Witness ==
    \E t, u \in Trials :
        /\ t # u
        /\ pc[t] = "append"
        /\ lock = t
        /\ pc[u] = "acquire"
        /\ design_hash[u] = design_hash[t]

\* Trial t's equivalence check ends in this step by the timeout.
TimesOut(t) ==
    /\ pc[t] = "check"
    /\ pc'[t] = "done"
    /\ runtime'[t] > TIMEOUT_SECONDS

\* C14: a timeout of one trial's check touches that trial alone: the
\* registry, the lock, the files, the task queue, every other trial's
\* position and locals and every other position of the result list stay as
\* they are, and the timed-out trial itself ends as a success.
C14_TimeoutTouchesOnlyItsTrial ==
    [][\A t \in Trials :
          TimesOut(t) =>
              /\ set_of_design_hashes' = set_of_design_hashes
              /\ lock' = lock
              /\ fs' = fs
              /\ taskq' = taskq
              /\ mr_success' = mr_success
              /\ \A u \in Trials \ {t} :
                    /\ pc'[u] = pc[u]
                    /\ design'[u] = design[u]
                    /\ design_hash'[u] = design_hash[u]
                    /\ num_cells'[u] = num_cells[u]
                    /\ check_duration'[u] = check_duration[u]
                    /\ runtime'[u] = runtime[u]
                    /\ IF mr_value = << >> THEN mr_value' = << >>
                       ELSE mr_value'[u + 1] = mr_value[u + 1]]_vars

\* A trial has timed out after another trial posted its measured result,
\* and that result is in its place.
C14_Witness ==
    \E t, u \in Trials :
        /\ t # u
        /\ pc[t] = "done"
        /\ runtime[t] > TIMEOUT_SECONDS
        /\ Len(finished) = 2
        /\ finished[1] = u
        /\ finished[2] = t
        /\ mr_success
        /\ mr_value[u + 1] = << num_cells[u], runtime[u] >>
        /\ mr_value[t + 1] = << num_cells[t], TIMEOUT_SECONDS >>

\* The candidate files written so far.
CandidateWrites == {w \in wrote : IsCandidatePath(w[1])}

\* The file holds a design that __get_num_cells puts over the bound.
OverBound(path) ==
    /\ ~ CellsOf[fs[path]].raised
    /\ CellsOf[fs[path]].value > MAX_NUM_CELLS

\* C15 as stated: a candidate that is discarded, as a duplicate or as over
\* the cell bound, has no design file in the scratch area: once its cells
\* are counted, a candidate file on disk holds a design within the bound.
C15_Original ==
    \A w \in CandidateWrites :
        (w[1] \in DOMAIN fs /\ pc[w[2]] # "cells") => ~ OverBound(w[1])

\* C15, amended: a duplicate candidate is discarded without being persisted:
\* a design file is written only for a fingerprint its trial has registered,
\* one file per registration.  An over-bound candidate is written to the
\* scratch area, where its cells are counted, and is then discarded; its
\* file stays there until the scratch area is removed at the end of the batch.
C15_OnlyDuplicatesUnwritten ==
    /\ [](/\ Cardinality(CandidateWrites)
               + Cardinality({t \in Trials : pc[t] \in {"release", "write"}})
               = Len(set_of_design_hashes)
          /\ \A w \in CandidateWrites :
                /\ \E i \in DOMAIN set_of_design_hashes :
                      w[1] = DesignPath(w[2], set_of_design_hashes[i])
                /\ main \in {"starmap", "rm"} => w[1] \in DOMAIN fs)
    /\ [][/\ \A t \in Trials :
                pc[t] = "dup" /\ pc'[t] # "dup" =>
                    /\ pc'[t] = "gen"
                    /\ fs' = fs
                    /\ wrote' = wrote
          /\ \A q \in DOMAIN fs' :
                (IsCandidatePath(q) /\ (q \notin DOMAIN fs \/ fs'[q] # fs[q])) =>
                    \E t \in Trials :
                        /\ pc[t] = "write"
                        /\ q = DesignPath(t, design_hash[t])
                        /\ fs'[q] = design[t]
                        /\ InRegistry(design_hash[t])]_vars

\* A trial is discarding a duplicate, for which no file carries its name,
\* while the file of an over-bound candidate that its trial has left behind
\* is on disk.
C15_Witness ==
    /\ \E t \in Trials :
          /\ pc[t] = "dup"
          /\ DesignPath(t, design_hash[t]) \notin DOMAIN fs
    /\ \E w \in CandidateWrites :
          /\ w[1] \in DOMAIN fs
          /\ OverBound(w[1])
          /\ ~ OfHeldDesign(w[1], w[2])

(***************************************************************************)
(* Properties of the cell counter.                                         *)
(***************************************************************************)
\* The lines of the report that begin with the label, blanks aside.
LabelLines(stdout) ==
    LET lines == Split(stdout, "\n")
    IN  {i \in 1 .. Len(lines) : StartsWith(Strip(lines[i]), "Number of cells:")}

\* The integer written after the label on line i of the report.
IntegerAfterLabel(stdout, i) ==
    DigitsValue(Strip(From(Strip(Split(stdout, "\n")[i]), Len("Number of cells:") + 1)), 0)

\* C16: __get_num_cells returns the integer after the label on the last
\* line of the report that begins with "Number of cells:", whatever the
\* earlier such lines say, and fails with an error when no line does.
C16_LastCellsLineCounts ==
    c_result # << >> =>
        LET ids == LabelLines(c_stdout)
        IN  IF ids = {} THEN c_result.raised
            ELSE /\ ~ c_result.raised
                 /\ c_result.value =
                        IntegerAfterLabel(c_stdout, CHOOSE i \in ids : \A k \in ids : k <= i)

\* The report has two lines with the label and different counts, followed
\* by a line that has the label inside; the later count is returned.
C16_Witness ==
    /\ c_stdout = "Number of cells: 10001\n   Number of cells:   2\nTotal Number of cells: 9\n"
    /\ c_result = [raised |-> FALSE, value |-> 2]

(***************************************************************************)
(* Properties of the wrapper's output declarations.                        *)
(***************************************************************************)
\* The output declaration of the module top_first in the transformed first
\* text: the first line that starts with "output", blanks aside, from the
\* line of "module top_first" on.
TopFirstOutputLine(first) ==
    LET lines == Split(first, "\n")
        top == CHOOSE i \in 1 .. Len(lines) :
                   /\ StartsWith(Strip(lines[i]), "module top_first")
                   /\ \A k \in 1 .. i - 1 : ~ StartsWith(Strip(lines[k]), "module top_first")
        out == CHOOSE i \in top .. Len(lines) :
                   /\ StartsWith(Strip(lines[i]), "output")
                   /\ \A k \in top .. i - 1 : ~ StartsWith(Strip(lines[k]), "output")
    IN  Strip(lines[out])

\* C17: the declarations of y_a and y_b in the wrapper are derived from the
\* output declaration of the module top_first, the module whose input ports
\* are collected, also when another module with an output declaration of
\* its own stands before the top module in the text.
C17_OutputOfTopFirst ==
    w_stage = "built" =>
        /\ w_out.top[2] = Replace(TopFirstOutputLine(w_out.first), "y;", "y_a;")
        /\ w_out.top[3] = Replace(TopFirstOutputLine(w_out.first), "y;", "y_b;")

(***************************************************************************)
(* Properties of where the lock is held.                                   *)
(***************************************************************************)
\* The positions at which a trial runs an external tool or writes a file:
\* the generator, the design file, the cell counter, the synthesizer, the
\* prepared files and the checker.
AtToolOrFile(t) == pc[t] \in {"gen", "write", "cells", "synth", "wrap", "check"}

\* C18: a trial gives the lock back on every way out of the with block, the
\* duplicate exit included, and holds it at no position where it runs an
\* external tool or writes a file, nor before it starts or after it ends;
\* so whoever holds the lock is inside the with block, and a trial that is
\* waiting for an external tool keeps nobody from registering.
C18_LockOnlyInWithBlock ==
    /\ [](/\ \A t \in Trials : ~ InWithBlock(t) => lock # t
          /\ lock # NoneVal => lock \in Trials /\ InWithBlock(lock)
          /\ (\A t \in Trials : AtToolOrFile(t) \/ pc[t] = "acquire") => LockFree)
    /\ [][\A t \in Trials :
             (InWithBlock(t) /\ ~ InWithBlock(t)') => (lock = t /\ lock' = NoneVal)]_vars

\* A trial is back at the generator after the duplicate exit, and another
\* trial that asks for the lock finds it free.
C18_Witness ==
    \E t, u \in Trials :
        /\ t # u
        /\ pc[t] = "gen"
        /\ design_hash[t] \in tried
        /\ design_hash[t] \in Range(set_of_design_hashes)
        /\ num_cells[t] = NoneVal
        /\ pc[u] = "acquire"
        /\ lock = NoneVal

(***************************************************************************)
(* Properties of what a trial holds after the acquire loop.                *)
(***************************************************************************)
\* Trial t has left the loop of lines 180-192.
PastLoop(t) == pc[t] \in {"synth", "wrap", "check", "done"}

\* C19: once a trial has left its acquire loop, its design text, its
\* fingerprint, its design file and its cell count are those of one
\* candidate, which is registered once and whose file this trial wrote; the
\* design that is synthesized and checked is the one whose count is
\* reported, whatever duplicates and over-bound candidates came before.
C19_OneCandidateAfterLoop ==
    \A t \in Trials :
        PastLoop(t) =>
            /\ design_hash[t] = FingerprintOf[design[t]]
            /\ TimesRegistered(design_hash[t]) = 1
            /\ path_to_design[t] = DesignPath(t, design_hash[t])
            /\ << path_to_design[t], t >> \in wrote
            /\ path_to_design[t] \in DOMAIN fs => fs[path_to_design[t]] = design[t]
            /\ ~ CellsOf[design[t]].raised
            /\ num_cells[t] = CellsOf[design[t]].value
            /\ (pc[t] # "synth" /\ SynthesizedPath(t, design_hash[t]) \in DOMAIN fs) =>
                   fs[SynthesizedPath(t, design_hash[t])] = SynthesizedOf[design[t]]
            /\ (pc[t] = "done" /\ mr_success) =>
                   mr_value[t + 1][1] = CellsOf[design[t]].value

\* A trial has ended with a result after it had written an over-bound
\* candidate and gone round the loop, while another trial drew the
\* fingerprint it holds and was turned away.
C19_Witness ==
    \E t, u \in Trials :
        /\ t # u
        /\ pc[t] = "done"
        /\ mr_success
        /\ \E w \in CandidateWrites : w[2] = t /\ ~ OfHeldDesign(w[1], t)
        /\ pc[u] = "dup"
        /\ design_hash[u] = design_hash[t]

=============================================================================
